---- MODULE Spec2Model ----
(***************************************************************************)
(* Reaction leaderboard bot (daedal00/bible_board).                        *)
(*                                                                         *)
(* worker.js : runScan = iterateMessages + getReactorsForMessage + topN,   *)
(*             entry points scheduled, GET /cron-test, POST /interactions  *)
(* part_000  : the older leaderboard module (getRecentMessages, ...)       *)
(* server.js : the older router calling generateAndPostLeaderboard         *)
(*                                                                         *)
(* Identifiers of users are strings of digits, modelled as sequences of    *)
(* digits; Map and Set objects are modelled as sequences in insertion      *)
(* order, as JavaScript iterates them.                                     *)
(***************************************************************************)
EXTENDS Integers, Sequences, FiniteSets, TLC

VARIABLES
    world,     \* the platform: channel history, configuration of the worker
    scan,      \* one execution of runScan (worker.js)
    runs,      \* what earlier calls of runScan gave their caller
    handler,   \* the entry point of worker.js that is running
    tn,        \* topN applied to a ledger
    legacy,    \* one execution of getRecentMessages (part_000)
    other      \* a second execution of runScan, concurrent with the first

vars == <<world, scan, runs, handler, tn, legacy, other>>

(***************************************************************************)
(* Bounds of the model.  The durations and the page size are the program's *)
(* values scaled down: what matters is their order, not their size.        *)
(***************************************************************************)
MaxMsgs == 3         \* messages in the channel history (scan specification)
WorkerMaxMsgs == 2   \* messages in the channel history (entry points)
MaxRuns == 2         \* calls of runScan by the test harness
PageLimit == 2       \* stands for limit: '100' of both paginated endpoints
Now == 4             \* Date.now()
WeekMs == 2          \* stands for 7 * 24 * 60 * 60 * 1000
TestMs == 1          \* stands for 30 * 60 * 1000

LegacyMaxMsgs == 4   \* messages in the channel history (getRecentMessages)
LegacyPageLimit == 3 \* stands for limit '100' of part_000
MaxCap == 4          \* largest cap given to getRecentMessages
MaxPts == 2          \* largest point total of a ledger given to topN
MaxN == 4            \* largest limit given to topN
ConcurrentMaxMsgs == 2 \* messages in the channel history (concurrent scans)
PaginatorMaxMsgs == 5 \* messages in the channel history (the two paginators)

TOP_N == 10          \* topN(points, 10)
TOP_FIELDS == 10     \* slice(0, 10) of generateLeaderboardEmbed

\* creation times of messages: before, at and after the start of the week window
Timestamps == {1, 2, 3}

U1 == <<1>>
U2 == <<2>>
U10 == <<1, 0>>
B5 == <<5>>
BotIds == {B5}
UserIds == {U1, U2, U10, B5}

NoCursor == <<>>     \* `after` undefined
NoBefore == 0        \* `before` undefined

Min(a, b) == IF a < b THEN a ELSE b

(***************************************************************************)
(* The platform: channel history and the reactors of each emoji.           *)
(***************************************************************************)
Unicode(name) == [name |-> name, id |-> ""]
Custom(name, id) == [name |-> name, id |-> id]

\* One reaction summary of a message, with the users the platform holds for it.
Summary(e, us) == [emoji |-> e, count |-> Len(us), reactors |-> us]

\* msg.reactions is undefined
ShapeAbsent == [present |-> FALSE, list |-> <<>>]
\* msg.reactions is []
ShapeEmpty == [present |-> TRUE, list |-> <<>>]
\* two emoji with common users, a bot among the users of the second
ShapeTwoEmoji ==
    [present |-> TRUE,
     list |-> << Summary(Unicode("book"), <<U1, U2>>),
                 Summary(Custom("amen", "77"), <<U1, U2, B5>>) >>]
\* a summary whose count is 0, then an emoji with a bot among its users
ShapeZeroCount ==
    [present |-> TRUE,
     list |-> << Summary(Unicode("pray"), <<>>),
                 Summary(Unicode("book"), <<U2, B5, U10>>) >>]

ReactionShapes == {ShapeAbsent, ShapeEmpty, ShapeTwoEmoji, ShapeZeroCount}

RawMessages == [ts : Timestamps, shape : ReactionShapes]

HistoriesOf(raw, n) == UNION { [1..k -> raw] : k \in 0..n }

Histories(n) == HistoriesOf(RawMessages, n)

\* The message object the API delivers: the identifier is the position in the
\* history (newest first).
Msg(h, i) == [id |-> i, ts |-> h[i].ts,
              hasReactions |-> h[i].shape.present,
              reactions |-> h[i].shape.list]

\* GET /channels/{id}/messages?limit=..&before=..
PageOf(h, before, limit) ==
    LET from == before + 1
        to == Min(before + limit, Len(h))
    IN [k \in 1..(IF to >= from THEN to - from + 1 ELSE 0) |-> Msg(h, from + k - 1)]

MessagePage(h, before) == PageOf(h, before, PageLimit)

\* r.emoji.id ? `${name}:${id}` : encodeURIComponent(name)
EmojiIdent(e) == IF e.id # "" THEN <<"custom", e.name, e.id>>
                 ELSE <<"encoded", e.name>>

UserRecord(uid) == [id |-> uid, bot |-> uid \in BotIds]

IndexOf(seq, x) == IF \E i \in 1..Len(seq) : seq[i] = x
                   THEN CHOOSE i \in 1..Len(seq) : seq[i] = x
                   ELSE 0

\* The users the platform holds for the emoji with this identity on a message.
ReactorsOf(m, ident) ==
    LET hit == {i \in 1..Len(m.reactions) : EmojiIdent(m.reactions[i].emoji) = ident}
    IN IF hit = {} THEN <<>> ELSE m.reactions[CHOOSE i \in hit : TRUE].reactors

\* GET /channels/{id}/messages/{mid}/reactions/{emoji}?limit=..&after=..
ReactionPage(m, ident, after) ==
    LET all == ReactorsOf(m, ident)
        from == IF after = NoCursor THEN 1 ELSE IndexOf(all, after) + 1
        to == Min(from + PageLimit - 1, Len(all))
    IN [k \in 1..(IF to >= from THEN to - from + 1 ELSE 0) |-> UserRecord(all[from + k - 1])]

(***************************************************************************)
(* JavaScript Map and Set, in insertion order.                             *)
(***************************************************************************)
MapHas(m, k) == \E i \in 1..Len(m) : m[i][1] = k

\* map.get(k) || 0
MapGetOr0(m, k) == IF MapHas(m, k) THEN m[CHOOSE i \in 1..Len(m) : m[i][1] = k][2] ELSE 0

\* map.set(k, v): an existing key keeps its place, a new key goes last
MapSet(m, k, v) == IF MapHas(m, k)
                   THEN [i \in 1..Len(m) |-> IF m[i][1] = k THEN <<k, v>> ELSE m[i]]
                   ELSE Append(m, <<k, v>>)

MapKeys(m) == {m[i][1] : i \in 1..Len(m)}

\* set.add(x)
SetAdd(s, x) == IF \E i \in 1..Len(s) : s[i] = x THEN s ELSE Append(s, x)

Members(s) == {s[i] : i \in 1..Len(s)}

(***************************************************************************)
(* topN (worker.js)                                                        *)
(***************************************************************************)
\* a.localeCompare(b) on strings of digits: -1, 0 or 1 in lexicographic order
LocaleCompare(a, b) ==
    LET n == Min(Len(a), Len(b))
        diff == {i \in 1..n : a[i] # b[i]}
    IN IF diff # {}
       THEN LET d == CHOOSE i \in diff : \A j \in diff : i <= j
            IN IF a[d] < b[d] THEN -1 ELSE 1
       ELSE IF Len(a) < Len(b) THEN -1
       ELSE IF Len(a) > Len(b) THEN 1 ELSE 0

\* Faulty variant of TopCompare: by points alone, (a, b) => b[1] - a[1]
TopCompareByPoints(a, b) == b[2] - a[2]

\* (a, b) => b[1] - a[1] || a[0].localeCompare(b[0])
TopCompare(a, b) == IF b[2] - a[2] # 0 THEN b[2] - a[2] ELSE LocaleCompare(a[1], b[1])

\* Array.prototype.sort with the comparator given as the function cmp on pairs
\* of entries: stable, entry i goes after every entry the comparator puts
\* before it and after every earlier entry the comparator ties with it.
SortWith(seq, cmp) ==
    LET n == Len(seq)
        Rank(i) == 1 + Cardinality({j \in 1..n :
                        \/ cmp[<<seq[j], seq[i]>>] < 0
                        \/ cmp[<<seq[j], seq[i]>>] = 0 /\ j < i})
    IN [k \in 1..n |-> seq[CHOOSE i \in 1..n : Rank(i) = k]]

\* array.slice(0, n)
Slice0(seq, n) == SubSeq(seq, 1, Min(n, Len(seq)))

\* [...map.entries()].sort(...).slice(0, n)
topN(map, n) ==
    Slice0(SortWith(map, [p \in Members(map) \X Members(map) |-> TopCompare(p[1], p[2])]), n)

\* buildNameMap: names.set(uid, `<@${uid}>`) for each uid of the set
Mention(uid) == [mention |-> uid]
buildNameMap(userIds) == [i \in 1..Len(userIds) |-> <<userIds[i], Mention(userIds[i])>>]

(***************************************************************************)
(* runScan, iterateMessages and getReactorsForMessage (worker.js), one     *)
(* step per loop iteration and per fetch.                                  *)
(***************************************************************************)
MessagesRequest(before) ==
    [kind |-> "messages", before |-> before, msg |-> 0, ident |-> <<>>, after |-> NoCursor]

ReactionsRequest(mid, ident, after) ==
    [kind |-> "reactions", before |-> NoBefore, msg |-> mid, ident |-> ident, after |-> after]

NoMsg == [id |-> 0, ts |-> 0, hasReactions |-> FALSE, reactions |-> <<>>]

NoResult == [rows |-> <<>>, names |-> <<>>, uniqueReactors |-> 0]

IdleScan ==
    [pc |-> "idle", caller |-> "none", sinceTs |-> 0, error |-> "none",
     before |-> NoBefore, batch |-> <<>>, idx |-> 0, msg |-> NoMsg,
     rIdx |-> 0, after |-> NoCursor, users |-> <<>>,
     points |-> <<>>, seenUsers |-> <<>>, result |-> NoResult,
     yielded |-> <<>>, fetches |-> <<>>, scored |-> <<>>, responses |-> <<>>]

\* Lines 34-36: the request for the next page of messages goes out.
IssueMessagesFetch(s) ==
    [s EXCEPT !.pc = "awaitMessages",
              !.fetches = Append(@, MessagesRequest(s.before))]

\* Faulty variant of RunScanEnter: only the token is checked.
RunScanEnterTokenOnly(s, w, windowMs, caller) ==
    LET fresh == [IdleScan EXCEPT !.caller = caller]
    IN IF ~w.token
       THEN [fresh EXCEPT !.pc = "threw", !.error = "config"]
       ELSE IssueMessagesFetch([fresh EXCEPT !.sinceTs = Now - windowMs])

\* Faulty variant of RunScanEnter: the ledger and the reactor set outlive the call, as
\* if declared at module level.
RunScanEnterKeepsLedger(s, w, windowMs, caller) ==
    LET fresh == [IdleScan EXCEPT !.caller = caller, !.points = s.points,
                                  !.seenUsers = s.seenUsers]
    IN IF ~w.token \/ ~w.source
       THEN [fresh EXCEPT !.pc = "threw", !.error = "config"]
       ELSE IssueMessagesFetch([fresh EXCEPT !.sinceTs = Now - windowMs])

\* Lines 85-93: the configuration check; then the ledger and the reactor set
\* start empty and the generator requests its first page.
RunScanEnter(s, w, windowMs, caller) ==
    LET fresh == [IdleScan EXCEPT !.caller = caller]
    IN IF ~w.token \/ ~w.source
       THEN [fresh EXCEPT !.pc = "threw", !.error = "config"]
       ELSE IssueMessagesFetch([fresh EXCEPT !.sinceTs = Now - windowMs])

Throw(s, what, outcome) ==
    [s EXCEPT !.pc = "threw", !.error = IF outcome = "status" THEN what ELSE "network"]

\* Faulty variant of MessagesResponse: an empty page does not end the loop,
\* the same page is asked for again without end (the state "spinning" stands
\* for that loop).
MessagesResponseNoBreak(s, w, outcome) ==
    IF outcome # "ok" THEN Throw(s, "messages", outcome)
    ELSE LET batch == MessagePage(w.history, s.before)
         IN IF Len(batch) = 0
            THEN [s EXCEPT !.pc = "spinning", !.batch = batch]
            ELSE [s EXCEPT !.pc = "iterate", !.batch = batch, !.idx = 1]

\* Lines 36-39: the page of messages arrives.
MessagesResponse(s, w, outcome) ==
    IF outcome # "ok" THEN Throw(s, "messages", outcome)
    ELSE LET batch == MessagePage(w.history, s.before)
         IN IF Len(batch) = 0
            THEN [s EXCEPT !.pc = "finish", !.batch = batch]
            ELSE [s EXCEPT !.pc = "iterate", !.batch = batch, !.idx = 1]

HasNoReactions(m) == ~m.hasReactions \/ Len(m.reactions) = 0

\* Faulty variant of IterateMessage: a message older than the window is skipped
\* (`continue`) where the code ends the iteration (`return`).
IterateMessageSkipStale(s) ==
    IF s.idx > Len(s.batch)
    THEN IssueMessagesFetch([s EXCEPT !.before = s.batch[Len(s.batch)].id])
    ELSE LET m == s.batch[s.idx]
         IN IF m.ts < s.sinceTs
            THEN [s EXCEPT !.idx = @ + 1]
            ELSE LET y == [s EXCEPT !.yielded = Append(@, m.id), !.msg = m]
                 IN IF HasNoReactions(m)
                    THEN [y EXCEPT !.idx = @ + 1]
                    ELSE [y EXCEPT !.pc = "reactions", !.users = <<>>, !.rIdx = 1]

\* Faulty variant of IterateMessage: the cursor is the first message of the page, not
\* the last.
IterateMessageCursorFirst(s) ==
    IF s.idx > Len(s.batch)
    THEN IssueMessagesFetch([s EXCEPT !.before = s.batch[1].id])
    ELSE LET m == s.batch[s.idx]
         IN IF m.ts < s.sinceTs
            THEN [s EXCEPT !.pc = "finish"]
            ELSE LET y == [s EXCEPT !.yielded = Append(@, m.id), !.msg = m]
                 IN IF HasNoReactions(m)
                    THEN [y EXCEPT !.idx = @ + 1]
                    ELSE [y EXCEPT !.pc = "reactions", !.users = <<>>, !.rIdx = 1]

\* Faulty variant of IterateMessage: the reactors are asked for whatever the
\* reaction list of the message (the `continue` of line 94 left out).
IterateMessageNoSkip(s) ==
    IF s.idx > Len(s.batch)
    THEN IssueMessagesFetch([s EXCEPT !.before = s.batch[Len(s.batch)].id])
    ELSE LET m == s.batch[s.idx]
         IN IF m.ts < s.sinceTs
            THEN [s EXCEPT !.pc = "finish"]
            ELSE [s EXCEPT !.yielded = Append(@, m.id), !.msg = m,
                           !.pc = "reactions", !.users = <<>>, !.rIdx = 1]

\* Faulty variant of IterateMessage: the next page of messages is requested
\* as soon as the last message of the page is reached, while its reactors
\* are still to be fetched.
IterateMessagePrefetch(s) ==
    IF s.idx > Len(s.batch)
    THEN IssueMessagesFetch([s EXCEPT !.before = s.batch[Len(s.batch)].id])
    ELSE LET m == s.batch[s.idx]
         IN IF m.ts < s.sinceTs
            THEN [s EXCEPT !.pc = "finish"]
            ELSE LET y == [s EXCEPT !.yielded = Append(@, m.id), !.msg = m]
                 IN IF HasNoReactions(m)
                    THEN [y EXCEPT !.idx = @ + 1]
                    ELSE [y EXCEPT !.pc = "reactions", !.users = <<>>, !.rIdx = 1,
                                   !.fetches = IF s.idx = Len(s.batch)
                                               THEN Append(@, MessagesRequest(m.id))
                                               ELSE @]

\* Lines 41-46 and 93-95: one turn of `for (const msg of batch)`, and the body
\* of runScan's loop up to the call of getReactorsForMessage.
IterateMessage(s) ==
    IF s.idx > Len(s.batch)
    THEN IssueMessagesFetch([s EXCEPT !.before = s.batch[Len(s.batch)].id])
    ELSE LET m == s.batch[s.idx]
         IN IF m.ts < s.sinceTs
            THEN [s EXCEPT !.pc = "finish"]
            ELSE LET y == [s EXCEPT !.yielded = Append(@, m.id), !.msg = m]
                 IN IF HasNoReactions(m)
                    THEN [y EXCEPT !.idx = @ + 1]
                    ELSE [y EXCEPT !.pc = "reactions", !.users = <<>>, !.rIdx = 1]

\* Faulty variant of Score: seenUsers is a list, a user is added once per
\* message.
RECURSIVE ScoreSeenList(_, _)
ScoreSeenList(s, reactors) ==
    IF reactors = <<>> THEN s
    ELSE LET uid == Head(reactors)
         IN ScoreSeenList([s EXCEPT !.points = MapSet(@, uid, MapGetOr0(@, uid) + 1),
                                    !.seenUsers = Append(@, uid)],
                          Tail(reactors))

\* Lines 96-99: every reactor of the message earns one point.
RECURSIVE Score(_, _)
Score(s, reactors) ==
    IF reactors = <<>> THEN s
    ELSE LET uid == Head(reactors)
         IN Score([s EXCEPT !.points = MapSet(@, uid, MapGetOr0(@, uid) + 1),
                            !.seenUsers = SetAdd(@, uid)],
                  Tail(reactors))

\* Lines 61-63: the request for the next page of users of one emoji goes out.
IssueReactionsFetch(s, after) ==
    [s EXCEPT !.pc = "awaitReactions", !.after = after,
              !.fetches = Append(@, ReactionsRequest(s.msg.id,
                                       EmojiIdent(s.msg.reactions[s.rIdx].emoji), after))]

\* Lines 54-59 and 71, 96-99: one turn of `for (const r of reactionsSummary)`;
\* past the last summary the set is returned and scored.
NextReaction(s) ==
    IF s.rIdx > Len(s.msg.reactions)
    THEN [Score(s, s.users) EXCEPT !.pc = "iterate", !.idx = @ + 1,
                                   !.scored = Append(@, <<s.msg.id, s.users>>)]
    ELSE IF s.msg.reactions[s.rIdx].count = 0
         THEN [s EXCEPT !.rIdx = @ + 1]
         ELSE IssueReactionsFetch(s, NoCursor)

\* Faulty variant of AddUsers: one entry per reaction, the set forgotten.
RECURSIVE AddUsersPerReaction(_, _)
AddUsersPerReaction(users, batch) ==
    IF batch = <<>> THEN users
    ELSE AddUsersPerReaction(IF ~Head(batch).bot THEN Append(users, Head(batch).id)
                             ELSE users,
                             Tail(batch))

\* Faulty variant of AddUsers: the bot flag is not looked at.
RECURSIVE AddUsersWithBots(_, _)
AddUsersWithBots(users, batch) ==
    IF batch = <<>> THEN users
    ELSE AddUsersWithBots(SetAdd(users, Head(batch).id), Tail(batch))

\* Line 66: for (const u of batch) if (!u.bot) users.add(u.id)
RECURSIVE AddUsers(_, _)
AddUsers(users, batch) ==
    IF batch = <<>> THEN users
    ELSE AddUsers(IF ~Head(batch).bot THEN SetAdd(users, Head(batch).id) ELSE users,
                  Tail(batch))

\* Faulty variant of ReactionsResponse: a failed request counts as an empty page.
ReactionsResponseSwallowed(s, outcome) ==
    IF outcome # "ok" THEN [s EXCEPT !.pc = "reactions", !.rIdx = @ + 1]
    ELSE LET ident == EmojiIdent(s.msg.reactions[s.rIdx].emoji)
             batch == ReactionPage(s.msg, ident, s.after)
             got == [s EXCEPT !.users = AddUsers(@, batch)]
         IN IF Len(batch) < PageLimit
            THEN [got EXCEPT !.pc = "reactions", !.rIdx = @ + 1]
            ELSE IssueReactionsFetch(got, batch[Len(batch)].id)

\* Faulty variant of ReactionsResponse: the cursor is the first user of the
\* page, not the last.
ReactionsResponseCursorFirst(s, outcome) ==
    IF outcome # "ok" THEN Throw(s, "reactions", outcome)
    ELSE LET ident == EmojiIdent(s.msg.reactions[s.rIdx].emoji)
             batch == ReactionPage(s.msg, ident, s.after)
             got == [s EXCEPT !.users = AddUsers(@, batch)]
         IN IF Len(batch) < PageLimit
            THEN [got EXCEPT !.pc = "reactions", !.rIdx = @ + 1]
            ELSE IssueReactionsFetch(got, batch[1].id)

\* Lines 63-68: a page of users arrives.
ReactionsResponse(s, outcome) ==
    IF outcome # "ok" THEN Throw(s, "reactions", outcome)
    ELSE LET ident == EmojiIdent(s.msg.reactions[s.rIdx].emoji)
             batch == ReactionPage(s.msg, ident, s.after)
             got == [s EXCEPT !.users = AddUsers(@, batch)]
         IN IF Len(batch) < PageLimit
            THEN [got EXCEPT !.pc = "reactions", !.rIdx = @ + 1]
            ELSE IssueReactionsFetch(got, batch[Len(batch)].id)

\* Lines 102-104
Finish(s) ==
    [s EXCEPT !.pc = "returned",
              !.result = [rows |-> topN(s.points, TOP_N),
                          names |-> buildNameMap(s.seenUsers),
                          uniqueReactors |-> Len(s.seenUsers)]]

Outcomes == {"ok", "status", "reject"}

(***************************************************************************)
(* Actions of one scan.                                                    *)
(***************************************************************************)
OnMessagesResponse ==
    /\ scan.pc = "awaitMessages"
    /\ \E outcome \in Outcomes :
          scan' = [MessagesResponse(scan, world, outcome)
                      EXCEPT !.responses = Append(@, outcome)]
    /\ UNCHANGED <<world, runs, handler, tn, legacy, other>>

OnIterateMessage ==
    /\ scan.pc = "iterate"
    /\ scan' = IterateMessage(scan)
    /\ UNCHANGED <<world, runs, handler, tn, legacy, other>>

OnNextReaction ==
    /\ scan.pc = "reactions"
    /\ scan' = NextReaction(scan)
    /\ UNCHANGED <<world, runs, handler, tn, legacy, other>>

OnReactionsResponse ==
    /\ scan.pc = "awaitReactions"
    /\ \E outcome \in Outcomes :
          scan' = [ReactionsResponse(scan, outcome)
                      EXCEPT !.responses = Append(@, outcome)]
    /\ UNCHANGED <<world, runs, handler, tn, legacy, other>>

OnFinish ==
    /\ scan.pc = "finish"
    /\ scan' = Finish(scan)
    /\ UNCHANGED <<world, runs, handler, tn, legacy, other>>

ScanStep ==
    \/ OnMessagesResponse
    \/ OnIterateMessage
    \/ OnNextReaction
    \/ OnReactionsResponse
    \/ OnFinish

(***************************************************************************)
(* Two executions of runScan in one isolate, interleaved at their awaits.  *)
(***************************************************************************)
\* Faulty variant of ConcurrentEnter: the ledger and the reactor set are
\* module-level objects, the call finds them as the running scan left them.
ConcurrentEnterSharedLedger(self, peer, w, caller) ==
    LET own == RunScanEnter(self, w, WeekMs, caller)
    IN [own EXCEPT !.points = peer.points, !.seenUsers = peer.seenUsers]

\* Lines 85-91: a call of runScan while another call (peer) may be running;
\* points, seenUsers and the generator's cursor are locals of the call.
ConcurrentEnter(self, peer, w, caller) == RunScanEnter(self, w, WeekMs, caller)

\* the scan goes on from its position up to its next await or its end
Resume(s, w, outcome) ==
    CASE s.pc = "awaitMessages" ->
             [MessagesResponse(s, w, outcome) EXCEPT !.responses = Append(@, outcome)]
      [] s.pc = "iterate" -> IterateMessage(s)
      [] s.pc = "reactions" -> NextReaction(s)
      [] s.pc = "awaitReactions" ->
             [ReactionsResponse(s, outcome) EXCEPT !.responses = Append(@, outcome)]
      [] s.pc = "finish" -> Finish(s)

Awaiting(s) == s.pc \in {"awaitMessages", "awaitReactions"}

Running(s) == s.pc \in {"awaitMessages", "iterate", "reactions", "awaitReactions", "finish"}

\* scheduled() starts its scan
ScheduledScanEnter ==
    /\ scan.pc = "idle"
    /\ scan' = ConcurrentEnter(scan, other, world, "scheduled")
    /\ UNCHANGED <<world, runs, handler, tn, legacy, other>>

\* the /leaderboard command starts its scan
SlashScanEnter ==
    /\ other.pc = "idle"
    /\ other' = ConcurrentEnter(other, scan, world, "slash")
    /\ UNCHANGED <<world, scan, runs, handler, tn, legacy>>

OtherScanStep ==
    /\ Running(other)
    /\ \E outcome \in (IF Awaiting(other) THEN Outcomes ELSE {"ok"}) :
          other' = Resume(other, world, outcome)
    /\ UNCHANGED <<world, scan, runs, handler, tn, legacy>>

(***************************************************************************)
(* A harness calling runScan(env) several times against the same channel.  *)
(***************************************************************************)
\* what the caller holds after the call: the returned object, or nothing
RunOutcome(s) == [ok |-> s.pc = "returned",
                  result |-> IF s.pc = "returned" THEN s.result ELSE NoResult]

HarnessCall ==
    /\ scan.pc \in {"idle", "returned", "threw"}
    /\ Len(runs) + 1 < MaxRuns \/ scan.pc = "idle"
    /\ runs' = IF scan.pc = "idle" THEN runs ELSE Append(runs, RunOutcome(scan))
    /\ scan' = RunScanEnter(scan, world, WeekMs, "harness")
    /\ UNCHANGED <<world, handler, tn, legacy, other>>

(***************************************************************************)
(* Entry points of worker.js.                                              *)
(***************************************************************************)
IdleHandler == [path |-> "none", pc |-> "idle", ack |-> FALSE,
                posted |-> <<>>, followups |-> <<>>]

\* Lines 108-112 (and 177-181): one line per row
Line(row, i, names) ==
    [medal |-> IF i = 1 THEN "gold" ELSE IF i = 2 THEN "silver"
               ELSE IF i = 3 THEN "bronze" ELSE "bullet",
     rank |-> i,
     name |-> IF MapHas(names, row[1])
              THEN names[CHOOSE k \in 1..Len(names) : names[k][1] = row[1]][2]
              ELSE [user |-> row[1]],
     pts |-> row[2],
     unit |-> IF row[2] = 1 THEN "pt" ELSE "pts"]

\* Faulty variant of Description: an empty list is rendered as no lines at all.
DescriptionNoPlaceholder(rows, names) ==
    [i \in 1..Len(rows) |-> Line(rows[i], i, names)]

\* lines.join('\n') || 'No points this week.'
Description(rows, names) ==
    IF Len(rows) = 0 THEN <<"No points this week.">>
    ELSE [i \in 1..Len(rows) |-> Line(rows[i], i, names)]

\* Lines 114-121
FancyEmbed(res) ==
    [title |-> "Weekly Reading Leaderboard",
     description |-> Description(res.rows, res.names),
     uniqueReactors |-> res.uniqueReactors]

\* Lines 182-189
SlashEmbed(res) ==
    [title |-> "Weekly Reading Leaderboard (last 7 days)",
     description |-> Description(res.rows, res.names),
     uniqueReactors |-> res.uniqueReactors]

\* Lines 231-233: scheduled() calls runScan(env)
ScheduledInvoke ==
    /\ handler.pc = "idle"
    /\ scan' = RunScanEnter(scan, world, WeekMs, "scheduled")
    /\ handler' = [handler EXCEPT !.path = "scheduled", !.pc = "scanning"]
    /\ UNCHANGED <<world, runs, tn, legacy, other>>

\* Lines 221-222: GET /cron-test calls runScan(env, 30 * 60 * 1000)
CronTestInvoke ==
    /\ handler.pc = "idle"
    /\ scan' = RunScanEnter(scan, world, TestMs, "crontest")
    /\ handler' = [handler EXCEPT !.path = "crontest", !.pc = "scanning"]
    /\ UNCHANGED <<world, runs, tn, legacy, other>>

\* Lines 167-176, 203-205: the async block starts runScan(env) and the deferred
\* acknowledgement is returned while the scan is pending.
LeaderboardInvoke ==
    /\ handler.pc = "idle"
    /\ scan' = RunScanEnter(scan, world, WeekMs, "slash")
    /\ handler' = [handler EXCEPT !.path = "slash", !.pc = "scanning", !.ack = TRUE]
    /\ UNCHANGED <<world, runs, tn, legacy, other>>

\* Lines 123-127 after 222/232: the embed is posted; a status that is not ok throws.
PostFancy(h, s, outcome) ==
    IF outcome = "ok"
    THEN [h EXCEPT !.pc = "done", !.posted = Append(@, FancyEmbed(s.result))]
    ELSE [h EXCEPT !.pc = "failed"]

PostFancyLeaderboard ==
    /\ handler.pc = "scanning"
    /\ handler.path \in {"scheduled", "crontest"}
    /\ scan.pc = "returned"
    /\ \E outcome \in Outcomes : handler' = PostFancy(handler, scan, outcome)
    /\ UNCHANGED <<world, scan, runs, tn, legacy, other>>

\* Lines 222, 232: an error of runScan leaves the entry point before the post.
ScanErrorPropagates ==
    /\ handler.pc = "scanning"
    /\ handler.path \in {"scheduled", "crontest"}
    /\ scan.pc = "threw"
    /\ handler' = [handler EXCEPT !.pc = "failed"]
    /\ UNCHANGED <<world, scan, runs, tn, legacy, other>>

\* Lines 176-195: the follow-up with the embed; the status of the response is
\* not looked at, a rejected fetch lands in the catch block.
SendEmbed(h, s, outcome) ==
    [h EXCEPT !.pc = IF outcome = "reject" THEN "catch" ELSE "done",
              !.followups = Append(@, [kind |-> "embed", body |-> SlashEmbed(s.result),
                                       outcome |-> outcome])]

FollowupEmbed ==
    /\ handler.pc = "scanning"
    /\ handler.path = "slash"
    /\ scan.pc = "returned"
    /\ \E outcome \in Outcomes : handler' = SendEmbed(handler, scan, outcome)
    /\ UNCHANGED <<world, scan, runs, tn, legacy, other>>

\* Lines 196-202: the catch block sends the failure notice.
SendNotice(h, outcome) ==
    [h EXCEPT !.pc = IF outcome = "reject" THEN "failed" ELSE "done",
              !.followups = Append(@, [kind |-> "notice",
                                       body |-> "Failed to compute leaderboard.",
                                       outcome |-> outcome])]

FollowupNotice ==
    /\ handler.path = "slash"
    /\ \/ handler.pc = "scanning" /\ scan.pc = "threw"
       \/ handler.pc = "catch"
    /\ \E outcome \in Outcomes : handler' = SendNotice(handler, outcome)
    /\ UNCHANGED <<world, scan, runs, tn, legacy, other>>

(***************************************************************************)
(* topN applied to a ledger given in insertion order.                      *)
(***************************************************************************)
IdleTopN == [pc |-> "idle", map |-> <<>>, n |-> 0, out |-> <<>>]

ApplyTopN ==
    /\ tn.pc = "input"
    /\ tn' = [tn EXCEPT !.pc = "output", !.out = topN(tn.map, tn.n)]
    /\ UNCHANGED <<world, scan, runs, handler, legacy, other>>

(***************************************************************************)
(* generateLeaderboardEmbed (part_000) applied to a ledger.                *)
(***************************************************************************)
\* (a, b) => b[1] - a[1]
EmbedCompare(a, b) == b[2] - a[2]

\* Lines 18-22: one field per entry
EmbedField(entry, index) ==
    [name |-> index, value |-> [mention |-> entry[1], points |-> entry[2]]]

\* Lines 13-31; the timestamp of the embed is left out
generateLeaderboardEmbed(userPoints) ==
    LET sortedUsers ==
            Slice0(SortWith(userPoints,
                            [p \in Members(userPoints) \X Members(userPoints)
                                |-> EmbedCompare(p[1], p[2])]),
                   TOP_FIELDS)
    IN [title |-> "Weekly Reactors Leaderboard",
        fields |-> [i \in 1..Len(sortedUsers) |-> EmbedField(sortedUsers[i], i)]]

ApplyEmbed ==
    /\ tn.pc = "input"
    /\ tn' = [tn EXCEPT !.pc = "embed", !.out = generateLeaderboardEmbed(tn.map).fields]
    /\ UNCHANGED <<world, scan, runs, handler, legacy, other>>

(***************************************************************************)
(* getRecentMessages (part_000)                                            *)
(***************************************************************************)
IdleLegacy == [pc |-> "idle", limit |-> 0, lastId |-> NoBefore,
               messages |-> <<>>, requests |-> <<>>]

\* Lines 40-50: the first request goes out, without a cursor
GetRecentMessagesEnter(limit) ==
    [IdleLegacy EXCEPT !.pc = "await", !.limit = limit, !.requests = <<NoBefore>>]

\* batch.filter(msg => new Date(msg.timestamp) >= oneWeekAgo)
RECURSIVE FilterRecent(_, _)
FilterRecent(batch, oneWeekAgo) ==
    IF batch = <<>> THEN <<>>
    ELSE (IF Head(batch).ts >= oneWeekAgo THEN <<Head(batch)>> ELSE <<>>)
         \o FilterRecent(Tail(batch), oneWeekAgo)

\* Lines 56-80: one turn of the loop, from the response to the next request
GetRecentMessagesResponse(g, w, outcome) ==
    IF outcome # "ok" THEN [g EXCEPT !.pc = "threw"]
    ELSE LET batch == PageOf(w.history, g.lastId, LegacyPageLimit)
             oneWeekAgo == Now - WeekMs
         IN IF Len(batch) = 0 THEN [g EXCEPT !.pc = "done"]
            ELSE IF batch[Len(batch)].ts < oneWeekAgo
            THEN [g EXCEPT !.pc = "done",
                           !.messages = @ \o FilterRecent(batch, oneWeekAgo)]
            ELSE LET all == g.messages \o batch
                 IN IF Len(all) >= g.limit
                    THEN [g EXCEPT !.pc = "done", !.messages = SubSeq(all, 1, g.limit)]
                    ELSE [g EXCEPT !.messages = all,
                                   !.lastId = batch[Len(batch)].id,
                                   !.requests = Append(@, batch[Len(batch)].id)]

GetRecentMessagesCall ==
    /\ legacy.pc = "idle"
    /\ \E limit \in 1..MaxCap : legacy' = GetRecentMessagesEnter(limit)
    /\ UNCHANGED <<world, scan, runs, handler, tn, other>>

OnLegacyResponse ==
    /\ legacy.pc = "await"
    /\ \E outcome \in Outcomes : legacy' = GetRecentMessagesResponse(legacy, world, outcome)
    /\ UNCHANGED <<world, scan, runs, handler, tn, other>>

(***************************************************************************)
(* Callers of generateAndPostLeaderboard in server.js that give no cap.    *)
(***************************************************************************)
\* getRecentMessages(channelId, botToken, limit = 100): the default of the
\* cap is the size of one page
DefaultLimit == LegacyPageLimit

\* generateAndPostLeaderboard(env): limit is undefined, the default applies
GenerateAndPostEnter(h, path) ==
    [legacy |-> GetRecentMessagesEnter(DefaultLimit),
     handler |-> [h EXCEPT !.path = path, !.pc = "scanning"]]

\* server.js, LEADERBOARD_COMMAND branch
ServerSlashInvoke ==
    /\ legacy.pc = "idle"
    /\ legacy' = GenerateAndPostEnter(handler, "slash").legacy
    /\ handler' = GenerateAndPostEnter(handler, "slash").handler
    /\ UNCHANGED <<world, scan, runs, tn, other>>

\* server.js, scheduled()
ServerScheduledInvoke ==
    /\ legacy.pc = "idle"
    /\ legacy' = GenerateAndPostEnter(handler, "scheduled").legacy
    /\ handler' = GenerateAndPostEnter(handler, "scheduled").handler
    /\ UNCHANGED <<world, scan, runs, tn, other>>

(***************************************************************************)
(* Specifications.                                                         *)
(***************************************************************************)
Worlds(n) == [history : Histories(n), token : BOOLEAN, source : BOOLEAN]

InitWith(n) ==
    /\ world \in Worlds(n)
    /\ scan = IdleScan
    /\ runs = <<>>
    /\ handler = IdleHandler
    /\ tn = IdleTopN
    /\ legacy = IdleLegacy
    /\ other = IdleScan

\* runScan called by a harness
Init == InitWith(MaxMsgs)

Next == HarnessCall \/ ScanStep

Spec == Init /\ [][Next]_vars

\* one call of runScan(env) by a configured worker
Configured(n) == [history : Histories(n), token : {TRUE}, source : {TRUE}]

RunScanOnce ==
    /\ scan.pc = "idle"
    /\ scan' = RunScanEnter(scan, world, WeekMs, "harness")
    /\ UNCHANGED <<world, runs, handler, tn, legacy, other>>

InitScan ==
    /\ world \in Configured(MaxMsgs)
    /\ scan = IdleScan
    /\ runs = <<>>
    /\ handler = IdleHandler
    /\ tn = IdleTopN
    /\ legacy = IdleLegacy
    /\ other = IdleScan

NextScan == RunScanOnce \/ ScanStep

SpecScan == InitScan /\ [][NextScan]_vars

\* the same call under a runtime that settles every fetch and resumes the
\* scan: a step of the scan that can be taken is taken in the end
InitLive ==
    /\ world \in Configured(WorkerMaxMsgs)
    /\ scan = IdleScan
    /\ runs = <<>>
    /\ handler = IdleHandler
    /\ tn = IdleTopN
    /\ legacy = IdleLegacy
    /\ other = IdleScan

SpecLive == InitLive /\ [][NextScan]_vars /\ WF_vars(ScanStep)

\* the entry points of worker.js
InitWorker == InitWith(WorkerMaxMsgs)

NextWorker ==
    \/ ScheduledInvoke
    \/ CronTestInvoke
    \/ LeaderboardInvoke
    \/ ScanStep
    \/ PostFancyLeaderboard
    \/ ScanErrorPropagates
    \/ FollowupEmbed
    \/ FollowupNotice

SpecWorker == InitWorker /\ [][NextWorker]_vars

\* a scheduled scan and a slash-command scan against a configured worker
InitConcurrent ==
    /\ world \in [history : Histories(ConcurrentMaxMsgs), token : {TRUE}, source : {TRUE}]
    /\ scan = IdleScan
    /\ runs = <<>>
    /\ handler = IdleHandler
    /\ tn = IdleTopN
    /\ legacy = IdleLegacy
    /\ other = IdleScan

NextConcurrent ==
    \/ ScheduledScanEnter
    \/ SlashScanEnter
    \/ ScanStep
    \/ OtherScanStep

SpecConcurrent == InitConcurrent /\ [][NextConcurrent]_vars

\* topN as a function of the ledger and the limit
Ledgers ==
    { m \in UNION { [1..k -> UserIds \X (1..MaxPts)] : k \in 0..Cardinality(UserIds) } :
        \A i, j \in 1..Len(m) : m[i][1] = m[j][1] => i = j }

InitTopN ==
    /\ world = [history |-> <<>>, token |-> TRUE, source |-> TRUE]
    /\ scan = IdleScan
    /\ runs = <<>>
    /\ handler = IdleHandler
    /\ legacy = IdleLegacy
    /\ other = IdleScan
    /\ \E m \in Ledgers, n \in (0..MaxN) \cup {TOP_N} :
          tn = [pc |-> "input", map |-> m, n |-> n, out |-> <<>>]

NextTopN == ApplyTopN \/ ApplyEmbed

SpecTopN == InitTopN /\ [][NextTopN]_vars

\* getRecentMessages against a channel history
LegacyRawMessages == [ts : Timestamps, shape : {ShapeAbsent, ShapeTwoEmoji}]

InitLegacy ==
    /\ world \in [history : HistoriesOf(LegacyRawMessages, LegacyMaxMsgs),
                  token : {TRUE}, source : {TRUE}]
    /\ scan = IdleScan
    /\ runs = <<>>
    /\ handler = IdleHandler
    /\ tn = IdleTopN
    /\ legacy = IdleLegacy
    /\ other = IdleScan

NextLegacy == GetRecentMessagesCall \/ OnLegacyResponse

SpecLegacy == InitLegacy /\ [][NextLegacy]_vars

\* the slash command and the scheduled run of server.js
NextServer == ServerSlashInvoke \/ ServerScheduledInvoke \/ OnLegacyResponse

SpecServer == InitLegacy /\ [][NextServer]_vars

\* iterateMessages (worker.js) and getRecentMessages (part_000) against the
\* same channel; the messages carry no reactions, so that runScan only drains
\* the generator
InitPaginators ==
    /\ world \in [history : HistoriesOf([ts : Timestamps, shape : {ShapeAbsent}],
                                        PaginatorMaxMsgs),
                  token : {TRUE}, source : {TRUE}]
    /\ scan = IdleScan
    /\ runs = <<>>
    /\ handler = IdleHandler
    /\ tn = IdleTopN
    /\ legacy = IdleLegacy
    /\ other = IdleScan

NextPaginators ==
    \/ RunScanOnce
    \/ OnMessagesResponse
    \/ OnIterateMessage
    \/ OnFinish
    \/ GetRecentMessagesCall
    \/ OnLegacyResponse

SpecPaginators == InitPaginators /\ [][NextPaginators]_vars

(***************************************************************************)
(* Properties.                                                             *)
(***************************************************************************)
NoDuplicateKeys(m) == \A i, j \in 1..Len(m) : m[i][1] = m[j][1] => i = j

\* u is a user, not a bot, among the reactors of at least one emoji of the message
ReactsOn(u, raw) ==
    /\ u \notin BotIds
    /\ \E k \in 1..Len(raw.shape.list) : u \in Members(raw.shape.list[k].reactors)

\* the number of distinct yielded messages u reacted to
ExpectedPoints(u) ==
    Cardinality({i \in Members(scan.yielded) : ReactsOn(u, world.history[i])})

\* C1: when runScan has returned, points[u] is the number of distinct yielded
\* messages on which u is a non-bot reactor of at least one emoji (one point
\* per message however many emoji), and a user with no such message has no
\* entry in the ledger.
C1_OnePointPerMessage ==
    scan.pc = "returned" =>
        /\ NoDuplicateKeys(scan.points)
        /\ \A u \in UserIds :
              /\ MapGetOr0(scan.points, u) = ExpectedPoints(u)
              /\ MapHas(scan.points, u) <=> ExpectedPoints(u) > 0

\* a finished scan of three messages: one where U1 and U2 each used two emoji,
\* two where U2 and U10 reacted
C1_Witness ==
    /\ scan.pc = "returned"
    /\ Len(scan.yielded) = 3
    /\ \E i \in 1..Len(world.history) : world.history[i].shape = ShapeTwoEmoji
    /\ MapGetOr0(scan.points, U1) = 1
    /\ MapGetOr0(scan.points, U2) = 3
    /\ MapGetOr0(scan.points, U10) = 2

ScoredUsers == UNION {Members(scan.scored[k][2]) : k \in 1..Len(scan.scored)}

\* C2: in every state of a scan no bot is a key of the ledger, a member of
\* the distinct-reactor set or of a reactor set of a message (being built or
\* returned), nor of the rows and names returned.
C2_NoBots ==
    /\ MapKeys(scan.points) \cap BotIds = {}
    /\ Members(scan.seenUsers) \cap BotIds = {}
    /\ Members(scan.users) \cap BotIds = {}
    /\ ScoredUsers \cap BotIds = {}
    /\ MapKeys(scan.result.rows) \cap BotIds = {}
    /\ MapKeys(scan.result.names) \cap BotIds = {}
    /\ scan.result.uniqueReactors <= Cardinality(UserIds \ BotIds)

\* the record of the bot was delivered on a first page (ShapeZeroCount) and on
\* a later page (ShapeTwoEmoji) of messages that were scored
C2_Witness ==
    /\ scan.pc = "returned"
    /\ \E i, j \in Members(scan.yielded) :
          /\ world.history[i].shape = ShapeTwoEmoji
          /\ world.history[j].shape = ShapeZeroCount
    /\ \E k \in 1..Len(scan.fetches) :
          /\ scan.fetches[k].kind = "reactions"
          /\ scan.fetches[k].after # NoCursor
    /\ scan.result.uniqueReactors = 3

\* identifier a comes before identifier b in lexicographic order
LexBefore(a, b) ==
    \E i \in 1..(Len(a) + 1) :
        /\ \A j \in 1..(i - 1) : j <= Len(b) /\ a[j] = b[j]
        /\ \/ i = Len(a) + 1 /\ Len(b) >= i
           \/ i <= Len(a) /\ i <= Len(b) /\ a[i] < b[i]

\* entry x ranks before entry y: more points, or equal points and smaller identifier
RanksBefore(x, y) == x[2] > y[2] \/ (x[2] = y[2] /\ LexBefore(x[1], y[1]))

\* C3: topN(ledger, N) has min(N, |ledger|) entries of the ledger, sorted by
\* points descending and identifier ascending among equal points, and every
\* omitted entry ranks after every entry kept.
C3_TopNIsPrefixOfRanking ==
    tn.pc = "output" =>
        /\ Len(tn.out) = Min(tn.n, Len(tn.map))
        /\ Members(tn.out) \subseteq Members(tn.map)
        /\ \A i, j \in 1..Len(tn.out) : i < j => RanksBefore(tn.out[i], tn.out[j])
        /\ \A o \in Members(tn.out), e \in Members(tn.map) \ Members(tn.out) :
              RanksBefore(o, e)

\* more users tie at the value of the cut than fit, and the ledger's first
\* entry (in insertion order) is among those dropped
C3_Witness ==
    /\ tn.pc = "output"
    /\ tn.n = 2
    /\ Len(tn.map) = 4
    /\ \A i \in 1..4 : tn.map[i][2] = tn.map[1][2]
    /\ tn.map[1] \notin Members(tn.out)
    /\ tn.out = <<<<U1, tn.map[1][2]>>, <<U10, tn.map[1][2]>>>>

\* position of the first message older than the window start; past the end if none
FirstStale(h, since) ==
    IF \E i \in 1..Len(h) : h[i].ts < since
    THEN CHOOSE i \in 1..Len(h) : h[i].ts < since /\ \A j \in 1..(i - 1) : h[j].ts >= since
    ELSE Len(h) + 1

IsMessagesRequest(r) == r.kind = "messages"

MessageRequests == SelectSeq(scan.fetches, IsMessagesRequest)

ScanOver == scan.pc \in {"finish", "returned"}

\* C4: every yielded message is at or after the window start; nothing at or
\* past the first older message is yielded or has its reactors fetched, no
\* page past the one holding that message is requested, and the iteration
\* ends there.
C4_StopsAtFirstStale ==
    LET f == FirstStale(world.history, scan.sinceTs)
    IN scan.pc # "idle" =>
        /\ \A k \in 1..Len(scan.yielded) :
              /\ world.history[scan.yielded[k]].ts >= scan.sinceTs
              /\ scan.yielded[k] < f
        /\ \A k \in 1..Len(scan.fetches) :
              /\ scan.fetches[k].kind = "messages" => scan.fetches[k].before < f
              /\ scan.fetches[k].kind = "reactions" => scan.fetches[k].msg < f
        /\ ScanOver /\ f <= Len(world.history) => Len(scan.yielded) = f - 1

\* the older message is followed in its page by a message inside the window,
\* and the history goes on past that page
C4_Witness ==
    LET f == FirstStale(world.history, scan.sinceTs)
    IN /\ scan.pc = "returned"
       /\ f + 1 < Len(world.history)
       /\ world.history[f + 1].ts >= scan.sinceTs
       /\ \E k \in 1..Len(scan.batch) : k < Len(scan.batch) /\ scan.batch[k].id = f
       /\ world.history[Len(world.history)].ts >= scan.sinceTs

NonIncreasing(h) == \A i \in 1..(Len(h) - 1) : h[i].ts >= h[i + 1].ts

StrictlyDecreasing(h) == \A i \in 1..(Len(h) - 1) : h[i].ts > h[i + 1].ts

InWindow(h, since) == {i \in 1..Len(h) : h[i].ts >= since}

\* C5: for a history in decreasing order of time (ties allowed), the yielded
\* messages are the messages at or after the window start, each once, newest
\* first; the first request has no cursor and each later request has as
\* cursor the last message of the page before.
C5_YieldsWindowOnce ==
    /\ NonIncreasing(world.history) =>
          /\ \A k \in 1..Len(scan.yielded) : scan.yielded[k] = k
          /\ ScanOver =>
                Len(scan.yielded) = Cardinality(InWindow(world.history, scan.sinceTs))
    /\ \A k \in 1..Len(MessageRequests) :
          MessageRequests[k].before =
              IF k = 1 THEN NoBefore
              ELSE LET page == MessagePage(world.history, MessageRequests[k - 1].before)
                   IN page[Len(page)].id

\* three messages in strictly decreasing order, two pages, the last message
\* older than the window
C5_Witness ==
    /\ scan.pc = "returned"
    /\ Len(world.history) = 3
    /\ StrictlyDecreasing(world.history)
    /\ scan.yielded = <<1, 2>>
    /\ Len(MessageRequests) = 2
    /\ MessageRequests[2].before = 2

FetchFailed == \E k \in 1..Len(scan.responses) : scan.responses[k] # "ok"

\* C6: once a fetch of the scan has failed, that fetch is the last one the
\* scan issued, the scan has thrown and returned nothing, nothing is posted to
\* the destination channel and the scheduled and /cron-test entry points do
\* not complete; no follow-up carries an embed.
C6_FailedFetchAbortsScan ==
    FetchFailed =>
        /\ scan.pc = "threw"
        /\ scan.error \in {"messages", "reactions", "network"}
        /\ Len(scan.fetches) = Len(scan.responses)
        /\ \A k \in 1..(Len(scan.responses) - 1) : scan.responses[k] = "ok"
        /\ scan.result = NoResult
        /\ handler.posted = <<>>
        /\ handler.path \in {"scheduled", "crontest"} => handler.pc \in {"scanning", "failed"}
        /\ \A k \in 1..Len(handler.followups) : handler.followups[k].kind = "notice"

\* a reaction page answers with an error status after a message was scored,
\* and the scheduled run ends without a post
C6_Witness ==
    /\ handler.path = "scheduled"
    /\ handler.pc = "failed"
    /\ scan.error = "reactions"
    /\ scan.scored # <<>>
    /\ scan.points # <<>>
    /\ handler.posted = <<>>

\* C7: for a /leaderboard interaction the acknowledgement is returned while
\* the scan is pending, and when the handler has finished exactly one
\* follow-up was sent: the embed if runScan returned, the notice if it threw;
\* never both.
C7_ExactlyOneFollowup ==
    handler.path = "slash" =>
        /\ handler.ack
        /\ ~ \E i, j \in 1..Len(handler.followups) :
                /\ handler.followups[i].kind = "embed"
                /\ handler.followups[j].kind = "notice"
        /\ handler.pc \in {"done", "failed"} =>
              /\ Len(handler.followups) = 1
              /\ scan.pc = "returned" => handler.followups[1].kind = "embed"
              /\ scan.pc = "threw" => handler.followups[1].kind = "notice"

ConfigMissing == ~world.token \/ ~world.source

\* C8: with the token or the source channel missing runScan throws the
\* configuration error and no fetch is ever issued.
C8_ConfigCheckedBeforeFetch ==
    ConfigMissing =>
        /\ scan.fetches = <<>>
        /\ scan.responses = <<>>
        /\ scan.pc # "idle" => scan.pc = "threw" /\ scan.error = "config"

\* the token is there, the source channel is not, the channel holds messages
C8_Witness ==
    /\ world.token
    /\ ~world.source
    /\ Len(world.history) > 0
    /\ scan.pc = "threw"
    /\ scan.error = "config"

\* C10: a call of runScan that returns gives the rows, names and uniqueReactors
\* that every earlier returning call gave against the same channel and window.
C10_SameResultTwice ==
    scan.pc = "returned" =>
        \A k \in 1..Len(runs) : runs[k].ok => scan.result = runs[k].result

\* the second of two returning calls, with at least two rows
C10_Witness ==
    /\ scan.pc = "returned"
    /\ Len(runs) = 1
    /\ runs[1].ok
    /\ Len(scan.result.rows) >= 2
    /\ scan.result.uniqueReactors >= 2

\* C9: getRecentMessages(channel, token, k) returns at most k messages, each at
\* or after the window start (stated for the histories in decreasing order of
\* time, which are among the histories the claim covers).
C9_CapAndWindow ==
    legacy.pc = "done" /\ NonIncreasing(world.history) =>
        /\ Len(legacy.messages) <= legacy.limit
        /\ \A k \in 1..Len(legacy.messages) : legacy.messages[k].ts >= Now - WeekMs

\* the ledgers holding the entries of m, in every insertion order
Reorderings(m) ==
    {[i \in 1..Len(m) |-> m[p[i]]] : p \in Permutations(1..Len(m))}

\* C11: the ranking does not depend on the insertion order of the ledger:
\* every reordering of the ledger gives the list topN gave, and the fields
\* generateLeaderboardEmbed gave.
C11_RankingIgnoresInsertionOrder ==
    /\ tn.pc = "output" => \A m \in Reorderings(tn.map) : topN(m, tn.n) = tn.out
    /\ tn.pc = "embed" =>
          \A m \in Reorderings(tn.map) : generateLeaderboardEmbed(m).fields = tn.out

\* the half of C11 that is about topN
C11_TopNIgnoresInsertionOrder ==
    tn.pc = "output" => \A m \in Reorderings(tn.map) : topN(m, tn.n) = tn.out

\* the embeds the entry points have sent: channel posts and follow-up embeds
SentEmbeds ==
    Members(handler.posted) \cup
    {handler.followups[k].body : k \in {j \in 1..Len(handler.followups) :
                                          handler.followups[j].kind = "embed"}}

Placeholder == <<"No points this week.">>

\* C12: when the newest message of the channel is older than the window start,
\* the scan issues one message-page request and no reaction request, and if
\* that page arrives runScan returns empty rows and uniqueReactors = 0 and every
\* embed sent has the placeholder as description; and whatever the channel, an
\* embed has the placeholder as description only when rows is empty.
C12_StaleFirstMessage ==
    /\ Len(world.history) > 0 /\ world.history[1].ts < scan.sinceTs /\ scan.pc # "idle" =>
          /\ scan.fetches \in {<<>>, <<MessagesRequest(NoBefore)>>}
          /\ scan.responses = <<"ok">> =>
                /\ scan.pc \in {"iterate", "finish", "returned"}
                /\ scan.yielded = <<>>
                /\ scan.points = <<>> /\ scan.seenUsers = <<>>
          /\ scan.pc = "returned" =>
                /\ scan.result.rows = <<>>
                /\ scan.result.uniqueReactors = 0
                /\ \A e \in SentEmbeds : e.description = Placeholder
    /\ \A e \in SentEmbeds : e.description = Placeholder <=> scan.result.rows = <<>>

\* the newest message is older than the window and carries reactions; the
\* scheduled run has posted its embed
C12_Witness ==
    /\ handler.path = "scheduled"
    /\ handler.pc = "done"
    /\ Len(world.history) = 2
    /\ world.history[1].ts < scan.sinceTs
    /\ world.history[1].shape = ShapeTwoEmoji
    /\ world.history[2].ts >= scan.sinceTs
    /\ Len(handler.posted) = 1
    /\ handler.posted[1].description = Placeholder

\* the requests of the scan for the users of one emoji of one message, in order
ReactionRequests(mid, ident) ==
    LET ForEmoji(r) == r.kind = "reactions" /\ r.msg = mid /\ r.ident = ident
    IN SelectSeq(scan.fetches, ForEmoji)

\* the users, bots left out, of the summaries of a message whose count is not 0
ExpectedReactors(m) ==
    {u \in UserIds \ BotIds :
        \E k \in 1..Len(m.reactions) :
            m.reactions[k].count # 0 /\ u \in Members(m.reactions[k].reactors)}

\* C13: the set getReactorsForMessage returns for a message is the union, over
\* its summaries with a count other than 0, of the users of the emoji that are
\* not bots; for each emoji the first request has no cursor and each later
\* one has as cursor the last user of the page before; and the requests for an
\* emoji stop at the first page shorter than the page size, so that a list
\* of n users costs n \div PageLimit + 1 requests.
C13_ReactorsOfMessage ==
    /\ \A k \in 1..Len(scan.scored) :
          LET m == Msg(world.history, scan.scored[k][1])
              users == scan.scored[k][2]
          IN /\ Members(users) = ExpectedReactors(m)
             /\ \A i, j \in 1..Len(users) : users[i] = users[j] => i = j
             /\ \A r \in 1..Len(m.reactions) :
                   Len(ReactionRequests(m.id, EmojiIdent(m.reactions[r].emoji))) =
                       IF m.reactions[r].count = 0 THEN 0
                       ELSE Len(m.reactions[r].reactors) \div PageLimit + 1
    /\ \A i \in 1..Len(world.history) :
          LET m == Msg(world.history, i)
          IN \A r \in 1..Len(m.reactions) :
                LET ident == EmojiIdent(m.reactions[r].emoji)
                    reqs == ReactionRequests(i, ident)
                IN \A q \in 1..Len(reqs) :
                      reqs[q].after =
                          IF q = 1 THEN NoCursor
                          ELSE LET page == ReactionPage(m, ident, reqs[q - 1].after)
                               IN page[Len(page)].id

\* a scored message with an emoji whose users fill pages exactly (the request
\* after the last full page comes back empty) and whose last user is a bot or
\* a user counted already
C13_Witness ==
    /\ scan.pc = "returned"
    /\ \E k \in 1..Len(scan.scored) :
          LET m == Msg(world.history, scan.scored[k][1])
          IN /\ world.history[m.id].shape = ShapeTwoEmoji
             /\ Members(scan.scored[k][2]) = {U1, U2}
             /\ \E r \in 1..Len(m.reactions) :
                   /\ Len(m.reactions[r].reactors) = PageLimit
                   /\ Len(ReactionRequests(m.id, EmojiIdent(m.reactions[r].emoji))) = 2

\* the step in which runScan receives message m from iterateMessages
Yields(m) ==
    /\ scan'.yielded = Append(scan.yielded, m.id)
    /\ scan'.msg = m

\* C14: no request for reaction users is ever issued for a message whose
\* reaction list is absent or empty, and the step in which runScan receives
\* such a message leaves the ledger, the distinct-reactor set and the requests
\* as they were and goes on to the next message of the page.
C14_NoReactionsNoEffect ==
    /\ [](\A k \in 1..Len(scan.fetches) :
            scan.fetches[k].kind = "reactions" =>
                ~HasNoReactions(Msg(world.history, scan.fetches[k].msg)))
    /\ [][\A i \in 1..Len(world.history) :
            Yields(Msg(world.history, i)) /\ HasNoReactions(Msg(world.history, i)) =>
                /\ scan'.points = scan.points
                /\ scan'.seenUsers = scan.seenUsers
                /\ scan'.fetches = scan.fetches
                /\ scan'.pc = "iterate"
                /\ scan'.idx = scan.idx + 1]_vars

\* a message without reactions has been received after a message that was
\* scored, and one with the reaction list absent after one with it empty
C14_Witness ==
    /\ scan.pc = "iterate"
    /\ scan.points # <<>>
    /\ scan.yielded = <<1, 2, 3>>
    /\ world.history[2].shape = ShapeEmpty
    /\ world.history[3].shape = ShapeAbsent
    /\ scan.msg.id = 3
    /\ Len(scan.scored) = 1

\* the reactors of message i have been returned to runScan, or were never asked for
Resolved(i) ==
    \/ HasNoReactions(Msg(world.history, i))
    \/ \E k \in 1..Len(scan.scored) : scan.scored[k][1] = i

\* C15: one request at most is waiting for its response; the requests for the
\* reactors of a message come after the message was yielded and before the
\* next message is yielded; messages are yielded in the order delivered; and a
\* request for a page of messages comes after the requests for the reactors
\* of every message of the pages before it and before those of the messages
\* after its cursor.
C15_OneFetchAtATime ==
    /\ Len(scan.fetches) - Len(scan.responses) =
          IF scan.pc \in {"awaitMessages", "awaitReactions"} THEN 1 ELSE 0
    /\ \A k \in 1..Len(scan.fetches) :
          scan.fetches[k].kind = "reactions" =>
              /\ scan.fetches[k].msg \in Members(scan.yielded)
              /\ \A j \in 1..(k - 1) :
                    IF scan.fetches[j].kind = "reactions"
                    THEN scan.fetches[j].msg <= scan.fetches[k].msg
                    ELSE scan.fetches[j].before < scan.fetches[k].msg
              /\ \A j \in (k + 1)..Len(scan.fetches) :
                    scan.fetches[j].kind = "messages" =>
                        scan.fetches[k].msg <= scan.fetches[j].before
    /\ scan.pc = "awaitReactions" =>
          scan.fetches[Len(scan.fetches)].msg = scan.yielded[Len(scan.yielded)]
    /\ \A k \in 1..(Len(scan.yielded) - 1) :
          /\ scan.yielded[k] < scan.yielded[k + 1]
          /\ Resolved(scan.yielded[k])
    /\ scan.pc = "awaitMessages" => \A k \in 1..Len(scan.yielded) : Resolved(scan.yielded[k])

\* two pages of messages and an empty third; the reactors of the first and of
\* the third message were asked for around the request for the second page
C15_Witness ==
    /\ scan.pc = "returned"
    /\ Len(MessageRequests) = 3
    /\ Len(scan.fetches) = Len(scan.responses)
    /\ \E j, k \in 1..Len(scan.fetches) :
          /\ j < k
          /\ scan.fetches[j].kind = "reactions" /\ scan.fetches[j].msg = 1
          /\ scan.fetches[k].kind = "reactions" /\ scan.fetches[k].msg = PageLimit + 1

\* C17: in every state of a scan the distinct-reactor set is the key set of
\* the ledger and every ledger value is at least 1; the uniqueReactors
\* returned is the number of ledger entries, is at least the number of rows,
\* and is at least the length of topN(points, n) whatever n.
C17_SeenUsersAreLedgerKeys ==
    /\ Members(scan.seenUsers) = MapKeys(scan.points)
    /\ Len(scan.seenUsers) = Len(scan.points)
    /\ NoDuplicateKeys(scan.points)
    /\ \A k \in 1..Len(scan.points) : scan.points[k][2] >= 1
    /\ scan.pc = "returned" =>
          /\ scan.result.uniqueReactors = Len(scan.points)
          /\ scan.result.uniqueReactors = Cardinality(MapKeys(scan.points))
          /\ scan.result.uniqueReactors >= Len(scan.result.rows)
          /\ \A n \in 0..MaxN :
                Len(topN(scan.points, n)) = Min(n, scan.result.uniqueReactors)

\* three users in the ledger, one of them with points from two messages; a
\* limit of 2 would show fewer rows than there are reactors
C17_Witness ==
    /\ scan.pc = "returned"
    /\ scan.result.uniqueReactors = 3
    /\ Len(topN(scan.points, 2)) = 2
    /\ \E k \in 1..Len(scan.points) : scan.points[k][2] >= 2

\* the points runScan gives u when it runs alone against the channel: one per
\* message before the first message older than the window
PointsAlone(u, since) ==
    Cardinality({i \in 1..(FirstStale(world.history, since) - 1) :
                    ReactsOn(u, world.history[i])})

\* the ledger, the reactor set and the rows of s are those of a scan run alone
AsAlone(s) ==
    /\ NoDuplicateKeys(s.points)
    /\ \A u \in UserIds : MapGetOr0(s.points, u) = PointsAlone(u, s.sinceTs)
    /\ Members(s.seenUsers) = {u \in UserIds : PointsAlone(u, s.sinceTs) > 0}
    /\ Len(s.seenUsers) = Len(s.points)
    /\ s.result.rows = topN(s.points, TOP_N)
    /\ s.result.uniqueReactors = Cardinality({u \in UserIds : PointsAlone(u, s.sinceTs) > 0})

\* C16: of two scans interleaved at their awaits against the same channel and
\* window, each that returns has the ledger, the reactor set and the rows of
\* a scan run alone, and two that return have the same ledger, reactor set
\* and result, in the same order; while they run, the users collected for the
\* current message of one are users of that message.
C16_ConcurrentScansIndependent ==
    /\ scan.pc = "returned" => AsAlone(scan)
    /\ other.pc = "returned" => AsAlone(other)
    /\ scan.pc = "returned" /\ other.pc = "returned" =>
          /\ scan.points = other.points
          /\ scan.seenUsers = other.seenUsers
          /\ scan.result = other.result
          /\ scan.fetches = other.fetches
    /\ \A s \in {scan, other} :
          /\ s.pc \in {"reactions", "awaitReactions"} =>
                Members(s.users) \subseteq ExpectedReactors(s.msg)
          /\ \A k \in 1..Len(s.yielded) : s.yielded[k] = k

\* the slash scan has scored two messages and returned while the scheduled
\* scan, with points in its own ledger, waits for a page of reaction users
C16_Witness ==
    /\ scan.pc = "awaitReactions"
    /\ scan.points # <<>>
    /\ other.pc = "returned"
    /\ Len(other.points) >= 2
    /\ Len(other.scored) = 2

\* the identifiers of the messages getRecentMessages has collected
Collected == {legacy.messages[k].id : k \in 1..Len(legacy.messages)}

\* C18: called without a cap from the slash command or the scheduled run,
\* getRecentMessages returns every message of the channel at or after the
\* start of the week (stated for the histories in decreasing order of time).
C18_UncappedCoversWeek ==
    /\ legacy.pc = "done"
    /\ handler.path \in {"slash", "scheduled"}
    /\ NonIncreasing(world.history)
    => Collected = InWindow(world.history, Now - WeekMs)

\* C19: a scan that has started ends: runScan returns or throws.
C19_ScanTerminates ==
    Running(scan) ~> scan.pc \in {"returned", "threw"}

\* a scan has returned after two requests for messages, the second answered
\* by an empty page, and after an emoji whose users filled a page exactly
C19_Witness ==
    /\ scan.pc = "returned"
    /\ Len(MessageRequests) = 2
    /\ Len(scan.yielded) = PageLimit
    /\ \E k \in 1..Len(scan.fetches) :
          /\ scan.fetches[k].kind = "reactions"
          /\ scan.fetches[k].after # NoCursor
          /\ ReactionPage(Msg(world.history, scan.fetches[k].msg),
                          scan.fetches[k].ident, scan.fetches[k].after) = <<>>

\* the identifiers of the messages getRecentMessages returned, in order
Returned == [k \in 1..Len(legacy.messages) |-> legacy.messages[k].id]

BothDone == scan.pc = "returned" /\ legacy.pc = "done"

\* the cap is larger than the number of messages of the channel in the window
CapAboveWindow ==
    legacy.limit > Cardinality(InWindow(world.history, Now - WeekMs))

\* the half of C20 about histories in strictly decreasing order of time
C20_SameOnOrderedInput ==
    BothDone /\ StrictlyDecreasing(world.history) /\ CapAboveWindow =>
        Returned = scan.yielded

\* message j follows, in a page delivered to getRecentMessages, a message
\* older than the window and is itself in the window
FollowsStaleInPage(j) ==
    /\ world.history[j].ts >= Now - WeekMs
    /\ \E r \in 1..Len(legacy.requests) :
          LET page == PageOf(world.history, legacy.requests[r], LegacyPageLimit)
          IN \E a, b \in 1..Len(page) :
                a < b /\ page[b].id = j /\ page[a].ts < Now - WeekMs

\* C20: with a cap larger than the number of messages in the window,
\* getRecentMessages returns the sequence iterateMessages yields when the
\* history is in strictly decreasing order of time; and a message in the
\* window that follows an older one in a page is kept by getRecentMessages
\* and dropped by iterateMessages.
C20_PaginatorsAgree ==
    BothDone /\ CapAboveWindow =>
        /\ StrictlyDecreasing(world.history) => Returned = scan.yielded
        /\ \A j \in 1..Len(world.history) :
              FollowsStaleInPage(j) =>
                  /\ j \in Members(Returned)
                  /\ j \notin Members(scan.yielded)

====
